---- MODULE Spec2Model ----
(***************************************************************************)
(* A model of the LLM safety gateway (backend.py, policies.py): the policy *)
(* registry, the chain construction of LLM_Safety_Gateway, the evaluation  *)
(* loop of process_prompt, the concrete policies with their regular        *)
(* expressions, and the /process_text endpoint around them.                *)
(*                                                                         *)
(* A text is a sequence of one-character strings. Python's None is the     *)
(* value None below, which is no text.                                     *)
(***************************************************************************)
EXTENDS Integers, Sequences, FiniteSets, TLC

(***************************************************************************)
(* Characters and str methods                                              *)
(***************************************************************************)
LowerLetters == <<"a","b","c","d","e","f","g","h","i","j","k","l","m",
                  "n","o","p","q","r","s","t","u","v","w","x","y","z">>

UpperLetters == <<"A","B","C","D","E","F","G","H","I","J","K","L","M",
                  "N","O","P","Q","R","S","T","U","V","W","X","Y","Z">>

Range(f) == {f[x] : x \in DOMAIN f}

LowerSet == Range(LowerLetters)

UpperSet == Range(UpperLetters)

Letters == LowerSet \cup UpperSet

Digits == {"0","1","2","3","4","5","6","7","8","9"}

\* \w of the re module, on the ASCII characters the model uses
WordChars == Letters \cup Digits \cup {"_"}

\* \s of the re module
Whitespace == {" ", "\t", "\n", "\r"}

\* Python's None; no text, since every element of a text is one character
None == <<"None">>

\* str.lower() on one character
LowerChar(c) ==
    IF c \in UpperSet
    THEN LowerLetters[CHOOSE k \in 1..26 : UpperLetters[k] = c]
    ELSE c

\* str.lower()
Lower(s) == [k \in 1..Len(s) |-> LowerChar(s[k])]

\* the slice s[i-1:j-1] of Python, as positions i..j-1 of the sequence
Slice(s, i, j) == SubSeq(s, i, j - 1)

\* str.startswith at an offset: sub occurs in s at position i
OccursAt(sub, s, i) ==
    /\ i + Len(sub) - 1 <= Len(s)
    /\ \A k \in 1..Len(sub) : s[i + k - 1] = sub[k]

\* the `in` operator on two strings
Contains(s, sub) == \E i \in 1..(Len(s) + 1) : OccursAt(sub, s, i)

\* str.strip(): leading and trailing whitespace removed
Strip(s) ==
    LET keep == {k \in 1..Len(s) : s[k] \notin Whitespace}
    IN  IF keep = {} THEN <<>>
        ELSE LET lo == CHOOSE k \in keep : \A j \in keep : k <= j
                 hi == CHOOSE k \in keep : \A j \in keep : k >= j
             IN  SubSeq(s, lo, hi)

(***************************************************************************)
(* The re module: backtracking matching of a pattern, given as a syntax    *)
(* tree, against a text.                                                   *)
(*   <<"lit", t>>        the characters of t       abc                     *)
(*   <<"set", S>>        a character of S          [..], \d                *)
(*   <<"nset", S>>       a character not in S      [^..]                   *)
(*   <<"any">>           any character but newline .                       *)
(*   <<"wb">>            word boundary             \b                      *)
(*   <<"seq", rs>>       concatenation                                     *)
(*   <<"alt", rs>>       alternation               a|b                     *)
(*   <<"rep", r, lo, hi>> greedy repetition        r{lo,hi}; hi = -1: no   *)
(*                                                 upper limit             *)
(* Try(rs, s, i, ic) is the matcher's search: the patterns of the list rs  *)
(* are to match one after the other from position i of s; the alternatives *)
(* are tried in the order of the re module (the first branch of a|b first, *)
(* the longest repetition first) and the first that lets the rest of the   *)
(* list match decides. The value is the position after the match, 0 when   *)
(* nothing matches. ic is the flag re.I.                                   *)
(***************************************************************************)
IsWordAt(s, i) == i >= 1 /\ i <= Len(s) /\ s[i] \in WordChars

CharMatches(S, c, ic) ==
    IF ic THEN \E x \in S : LowerChar(x) = LowerChar(c) ELSE c \in S

\* the literal t occurs in s at position i (letters compared without case
\* under re.I)
LitAt(t, s, i, ic) ==
    /\ i + Len(t) - 1 <= Len(s)
    /\ \A k \in 1..Len(t) :
          IF ic THEN LowerChar(s[i + k - 1]) = LowerChar(t[k])
          ELSE s[i + k - 1] = t[k]

\* a pattern that matches exactly one character
IsSingle(r) == r[1] \in {"set", "nset", "any"}

\* the one-character pattern r matches the character at position i
SingleAt(r, s, i, ic) ==
    /\ i <= Len(s)
    /\ CASE r[1] = "set"  -> CharMatches(r[2], s[i], ic)
         [] r[1] = "nset" -> ~CharMatches(r[2], s[i], ic)
         [] r[1] = "any"  -> s[i] # "\n"

\* how many characters from position i on the one-character pattern r matches
\* in a row, at most hi of them (hi = -1: no limit)
RunLength(r, hi, s, i, ic) ==
    LET most == IF hi = -1 \/ hi > Len(s) + 1 - i THEN Len(s) + 1 - i ELSE hi
        stops == {m \in 0..most : m = most \/ ~SingleAt(r, s, i + m, ic)}
    IN  CHOOSE m \in stops : \A n \in stops : m <= n

\* the value of the first candidate, in the order of their keys, that is not
\* 0; candidates is a set of <<key, value>>
FirstHit(candidates) ==
    \* the set is computed once
    CHOOSE v \in {IF \A c \in cands : c[2] = 0 THEN 0
                  ELSE (CHOOSE c \in cands :
                          /\ c[2] # 0
                          /\ \A d \in cands : d[2] # 0 => c[1] <= d[1])[2] :
                    cands \in {candidates}} : TRUE

\* the repetition r{lo,hi} after one of its repetitions: r{lo-1,hi-1}
RepLess(r) ==
    <<"rep", r[2], IF r[3] > 0 THEN r[3] - 1 ELSE 0,
      IF r[4] > 0 THEN r[4] - 1 ELSE -1>>

RECURSIVE Try(_, _, _, _)
Try(rs, s, i, ic) ==
    IF rs = <<>> THEN i
    ELSE LET r == rs[1]
             rest == Tail(rs)
         IN  CASE r[1] = "lit" ->
                    IF LitAt(r[2], s, i, ic)
                    THEN Try(rest, s, i + Len(r[2]), ic) ELSE 0
               [] IsSingle(r) ->
                    IF SingleAt(r, s, i, ic) THEN Try(rest, s, i + 1, ic) ELSE 0
               [] r[1] = "wb" ->
                    IF IsWordAt(s, i - 1) # IsWordAt(s, i)
                    THEN Try(rest, s, i, ic) ELSE 0
               [] r[1] = "seq" ->
                    Try(r[2] \o rest, s, i, ic)
               [] r[1] = "alt" ->
                    \* the branches in order
                    FirstHit({<<k, Try(<<r[2][k]>> \o rest, s, i, ic)>> :
                                k \in 1..Len(r[2])})
               [] r[1] = "rep" /\ IsSingle(r[2]) ->
                    \* the longest run first, then one character less at a time
                    FirstHit({<<0 - m, Try(rest, s, i + m, ic)>> :
                                m \in r[3]..RunLength(r[2], r[4], s, i, ic)})
               [] r[1] = "rep" /\ ~IsSingle(r[2]) ->
                    \* one more repetition first, then none if lo allows it
                    FirstHit({<<1, IF r[4] = 0 THEN 0
                                   ELSE Try(<<r[2], RepLess(r)>> \o rest, s, i, ic)>>,
                              <<2, IF r[3] = 0 THEN Try(rest, s, i, ic) ELSE 0>>})

\* Pattern.match at position i: the position after the match, 0 if none
MatchAt(r, s, i, ic) == Try(<<r>>, s, i, ic)

\* Pattern.search from position `from` on: the leftmost start with a match
\* and that match's end, <<start, end>>, or <<>> when there is no match
SearchFrom(r, s, from, ic) ==
    CHOOSE v \in {IF \A m \in found : m[2] = 0 THEN <<>>
                  ELSE CHOOSE m \in found :
                         /\ m[2] # 0
                         /\ \A n \in found : n[2] # 0 => m[1] <= n[1] :
                    found \in {{<<i, MatchAt(r, s, i, ic)>> :
                                  i \in from..(Len(s) + 1)}}} : TRUE

\* re.search(...) is not None
Search(r, s, ic) ==
    \E t \in {s} : \E i \in 1..(Len(t) + 1) : MatchAt(r, t, i, ic) # 0

\* Pattern.sub with a literal replacement: every non-overlapping match,
\* leftmost first, replaced by repl. The patterns substituted here (email,
\* phone, URL) match no empty string.
RECURSIVE SubFrom(_, _, _, _, _)
SubFrom(r, repl, s, from, ic) ==
    CHOOSE v \in {IF m = <<>> THEN Slice(s, from, Len(s) + 1)
                  ELSE Slice(s, from, m[1]) \o repl
                       \o SubFrom(r, repl, s, m[2], ic) :
                    m \in {SearchFrom(r, s, from, ic)}} : TRUE

Sub(r, repl, s, ic) ==
    CHOOSE v \in {SubFrom(r, repl, t, 1, ic) : t \in {s}} : TRUE

(***************************************************************************)
(* Pattern constructors, and the patterns of policies.py                   *)
(***************************************************************************)
Ch(c) == <<"set", {c}>>

Seq_(rs) == <<"seq", rs>>

Alt(rs) == <<"alt", rs>>

Opt(r) == <<"rep", r, 0, 1>>

Star(r) == <<"rep", r, 0, -1>>

Plus(r) == <<"rep", r, 1, -1>>

Times(r, n) == <<"rep", r, n, n>>

\* a literal string as a pattern
Lit(s) == <<"lit", s>>

WordBoundary == <<"wb">>

\* \s
Space == <<"set", Whitespace>>

\* \d
Digit == <<"set", Digits>>

\* [a-zA-Z0-9._%+-]+@[a-zA-Z0-9.-]+\.[a-zA-Z]{2,}
EmailPattern ==
    Seq_(<< Plus(<<"set", Letters \cup Digits \cup {".", "_", "%", "+", "-"}>>),
            Ch("@"),
            Plus(<<"set", Letters \cup Digits \cup {".", "-"}>>),
            Ch("."),
            <<"rep", <<"set", Letters>>, 2, -1>> >>)

\* [-.\s]
PhoneSep == <<"set", {"-", "."} \cup Whitespace>>

\* (?:(?:\+?\d{1,3}[-.\s]?)|\(0?\d{3}\)[-.\s]?)?\d{3}[-.\s]?\d{4}(?:[-.\s]?\d{3})?
PhonePattern ==
    Seq_(<< Opt(Alt(<< Seq_(<<Opt(Ch("+")), <<"rep", Digit, 1, 3>>, Opt(PhoneSep)>>),
                       Seq_(<<Ch("("), Opt(Ch("0")), Times(Digit, 3), Ch(")"),
                              Opt(PhoneSep)>>) >>)),
            Times(Digit, 3),
            Opt(PhoneSep),
            Times(Digit, 4),
            Opt(Seq_(<<Opt(PhoneSep), Times(Digit, 3)>>)) >>)

\* rf"https?://{re.escape(dom)}[^\s]*", matched with re.I
UrlPattern(dom) ==
    Seq_(<< Lit(<<"h","t","t","p">>), Opt(Ch("s")), Lit(<<":","/",
        "/">>), Lit(dom),
            Star(<<"nset", Whitespace>>) >>)

\* (make|build|create|manufacture)
CreationVerb ==
    Alt(<< Lit(<<"m","a","k","e">>), Lit(<<"b","u","i","l",
        "d">>), Lit(<<"c","r","e","a","t","e">>),
           Lit(<<"m","a","n","u","f","a","c","t","u","r","e">>) >>)

\* (a|the)?\s*bomb\b
ArticleBomb ==
    Seq_(<< Opt(Alt(<<Lit(<<"a">>), Lit(<<"t","h","e">>)>>)), Star(Space),
            Lit(<<"b","o","m","b">>), WordBoundary >>)

\* self.block_patterns, each with its source text (pat.pattern)
block_patterns ==
    << [pattern |-> "\\b(make|build|create|manufacture)\\s+(a|the)?\\s*bomb\\b",
        re |-> Seq_(<<WordBoundary, CreationVerb, Plus(Space), ArticleBomb>>)],
       [pattern |-> "\\bhow to (make|build|create|manufacture)\\s+(a|the)?\\s*bomb\\b",
        re |-> Seq_(<<WordBoundary, Lit(<<"h","o","w"," ","t","o",
            " ">>), CreationVerb, Plus(Space),
                      ArticleBomb>>)],
       [pattern |-> "\\bbomb\\s*recipe\\b",
        re |-> Seq_(<<WordBoundary, Lit(<<"b","o","m",
            "b">>), Star(Space), Lit(<<"r","e","c","i","p","e">>),
                      WordBoundary>>)],
       [pattern |-> "\\bexplosive\\s+device\\b",
        re |-> Seq_(<<WordBoundary, Lit(<<"e","x","p","l","o","s","i","v",
            "e">>), Plus(Space),
                      Lit(<<"d","e","v","i","c","e">>), WordBoundary>>)],
       [pattern |-> "\\bpipe\\s*bomb\\b",
        re |-> Seq_(<<WordBoundary, Lit(<<"p","i","p",
            "e">>), Star(Space), Lit(<<"b","o","m","b">>),
                      WordBoundary>>)],
       [pattern |-> "\\bied\\b",
        re |-> Seq_(<<WordBoundary, Lit(<<"i","e","d">>), WordBoundary>>)],
       [pattern |-> "\\bhow to hack a bank\\b",
        re |-> Seq_(<<WordBoundary, Lit(<<"h","o","w"," ","t","o"," ","h",
            "a","c","k"," ","a"," ","b","a","n","k">>), WordBoundary>>)],
       [pattern |-> "\\bhow to (kill|poison)\\b",
        re |-> Seq_(<<WordBoundary, Lit(<<"h","o","w"," ","t","o"," ">>),
                      Alt(<<Lit(<<"k","i","l","l">>), Lit(<<"p","o","i","s",
                          "o","n">>)>>), WordBoundary>>)] >>

\* self.rewrite_patterns: \b(hack|bypass)\b.*\b(firewall|router|wifi|system)\b
rewrite_patterns ==
    << [pattern |-> "\\b(hack|bypass)\\b.*\\b(firewall|router|wifi|system)\\b",
        re |-> Seq_(<<WordBoundary, Alt(<<Lit(<<"h","a","c",
            "k">>), Lit(<<"b","y","p","a","s","s">>)>>),
                      WordBoundary, Star(<<"any">>), WordBoundary,
                      Alt(<<Lit(<<"f","i","r","e","w","a","l",
                          "l">>), Lit(<<"r","o","u","t","e",
                              "r">>), Lit(<<"w","i","f","i">>),
                            Lit(<<"s","y","s","t","e","m">>)>>),
                      WordBoundary>>)] >>

\* self.rewrite_template, up to {prompt}
rewrite_template ==
    <<"T","h","i","s"," ","q","u","e","r","y"," ","w","a","s"," ","r","e",
        "w","r","i","t","t","e","n"," ","t","o"," ","f","o","c","u","s"," ",
            "o","n","l","y"," ","o","n"," ","d","e","f","e","n","s","i","v",
                "e"," ","c","y","b","e","r","s","e","c","u","r","i","t","y",
                    "."," ","E","x","p","l","a","i","n"," ","b","e","s","t",
                        " ","p","r","a","c","t","i","c","e","s"," ","w","i",
                            "t","h","o","u","t"," ","a","t","t","a","c","k",
                                " ","s","t","e","p","s",":"," ">>

\* \bbomb\b of the compound rule
BombWord == Seq_(<<WordBoundary, Lit(<<"b","o","m","b">>), WordBoundary>>)

(***************************************************************************)
(* Python values of the configuration (what yaml.safe_load yields): a      *)
(* string, a number, None, a list, a dict. A dict's v is a function from   *)
(* its keys; the empty dict's is <<>>.                                     *)
(***************************************************************************)
StrV(s) == [t |-> "str", v |-> s]

NoneV == [t |-> "none", v |-> <<>>]

ListV(vs) == [t |-> "list", v |-> vs]

DictV(d) == [t |-> "dict", v |-> d]

EmptyDict == DictV(<<>>)

\* dict.get(key, default)
Get(d, key, default) == IF key \in DOMAIN d.v THEN d.v[key] ELSE default

\* iter(x): the elements a for loop over x visits, or TypeError
Iterate(x) ==
    CASE x.t = "list" -> [raises |-> "", items |-> x.v]
      [] x.t = "str"  -> [raises |-> "",
                          items |-> [k \in 1..Len(x.v) |-> StrV(<<x.v[k]>>)]]
      [] OTHER        -> [raises |-> "TypeError", items |-> <<>>]

(***************************************************************************)
(* Results of evaluate_prompt and of the constructors. `raises` names the  *)
(* exception raised, "" when the call returns.                             *)
(***************************************************************************)
Details(msg, arg) == [msg |-> msg, arg |-> arg]

NoDetails == Details("", <<>>)

\* the dict a policy returns; processed_prompt is None when the key is absent
Result(status, details, processed) ==
    [raises |-> "", status |-> status, details |-> details,
     processed_prompt |-> processed]

Raised(exc) ==
    [raises |-> exc, status |-> "", details |-> NoDetails,
     processed_prompt |-> None]

Built(inst) == [raises |-> "", inst |-> inst]

NotBuilt(exc) == [raises |-> exc, inst |-> <<>>]

\* the replacement template of Pattern.sub is invalid: a group reference \1..\9
\* to a pattern without groups (the model's mask tokens hold no other escape)
TemplateError(tok) ==
    \E k \in 1..(Len(tok) - 1) : tok[k] = "\\" /\ tok[k + 1] \in Digits \ {"0"}

\* Pattern.sub(repl, s) with repl a configured value: TypeError unless repl is
\* a string, re.error on an invalid template, both raised before any matching
SubRepl(pat, repl, s, ic) ==
    IF repl.t # "str" THEN [raises |-> "TypeError", text |-> s]
    ELSE IF TemplateError(repl.v) THEN [raises |-> "error", text |-> s]
    ELSE [raises |-> "", text |-> Sub(pat, repl.v, s, ic)]

\* the pattern texts re.compile is given in the model
PhoneSource ==
    <<"(","?",":","(","?",":","\\","+","?","\\","d","{","1",",","3","}","[",
        "-",".","\\","s","]","?",")","|","\\","(","0","?","\\","d","{","3",
            "}","\\",")","[","-",".","\\","s","]","?",")","?","\\","d","{",
                "3","}","[","-",".","\\","s","]","?","\\","d","{","4","}",
                    "(","?",":","[","-",".","\\","s","]","?","\\","d","{",
                        "3","}",")","?">>

EmailSource == <<"[","a","-","z","A","-","Z","0","-","9",".","_","%","+",
    "-","]","+","@","[","a","-","z","A","-","Z","0","-","9",".","-","]","+",
        "\\",".","[","a","-","z","A","-","Z","]","{","2",",","}">>

\* re.compile: TypeError unless given a string, re.error on a malformed
\* pattern; defined on the pattern texts that occur in the model
re_compile(p) ==
    IF p.t # "str" THEN [raises |-> "TypeError", re |-> <<"any">>]
    ELSE CASE p.v = PhoneSource -> [raises |-> "", re |-> PhonePattern]
           [] p.v = EmailSource -> [raises |-> "", re |-> EmailPattern]
           [] p.v = <<"(">>        -> [raises |-> "error", re |-> <<"any">>]

(***************************************************************************)
(* PII_Scrubber                                                            *)
(***************************************************************************)
\* PromptPolicy.__init__: self.config = policy_config or {}
PromptPolicy_config(policy_config) ==
    IF policy_config.t = "none"
       \/ (policy_config.t = "dict" /\ DOMAIN policy_config.v = {})
    THEN EmptyDict ELSE policy_config

PII_Scrubber_init(policy_config) ==
    LET config == PromptPolicy_config(policy_config)
    IN  Built([name |-> "PII_Scrubber",
               mask_token |-> Get(config, "mask_token",
                                  StrV(<<"[","E","M","A","I","L","_","M",
                                      "A","S","K","E","D","]">>))])

PII_Scrubber_evaluate_prompt(self, text) ==
    CHOOSE res \in
        {IF masked.raises # "" THEN Raised(masked.raises)
         ELSE IF masked.text # text
         THEN Result("MASK", Details("PII (email) masked.", <<>>), masked.text)
         ELSE Result("PASS", Details("No PII found.", <<>>), None) :
           masked \in {SubRepl(EmailPattern, self.mask_token, text, FALSE)}} : TRUE

(***************************************************************************)
(* Jailbreak_Detector                                                      *)
(***************************************************************************)
JailbreakDefaults ==
    ListV(<< StrV(<<"i","g","n","o","r","e"," ","p","r","e","v","i","o","u",
        "s"," ","r","u","l","e","s">>),
             StrV(<<"d","a","n"," ","m","o","d","e">>),
             StrV(<<"j","a","i","l","b","r","e","a","k">>),
             StrV(<<"b","y","p","a","s","s"," ","s","a","f","e","t","y">>),
             StrV(<<"a","c","t"," ","a","s"," ","i","f"," ","y","o","u"," ",
                 "a","r","e"," ","n","o","t"," ","a","n"," ","a","i">>) >>)

\* policy_config.get on None is an AttributeError; so is kw.lower() on a
\* keyword that is no string; a keywords value that is no list is a TypeError
Jailbreak_Detector_init(policy_config) ==
    IF policy_config.t # "dict" THEN NotBuilt("AttributeError")
    ELSE LET kws == Iterate(Get(policy_config, "keywords", JailbreakDefaults))
         IN  IF kws.raises # "" THEN NotBuilt(kws.raises)
             ELSE IF \E k \in 1..Len(kws.items) : kws.items[k].t # "str"
             THEN NotBuilt("AttributeError")
             ELSE Built([name |-> "Jailbreak_Detector",
                         keywords |-> [k \in 1..Len(kws.items) |->
                                          Lower(kws.items[k].v)]])

\* the first keyword, in list order, that the text holds: its index, 0 if none
FirstKeyword(keywords, low) ==
    IF \E k \in 1..Len(keywords) : Contains(low, keywords[k])
    THEN CHOOSE k \in 1..Len(keywords) :
            /\ Contains(low, keywords[k])
            /\ \A j \in 1..(k - 1) : ~Contains(low, keywords[j])
    ELSE 0

Jailbreak_Detector_evaluate_prompt(self, text) ==
    CHOOSE res \in
        {IF FirstKeyword(self.keywords, low) # 0
         THEN Result("BLOCK",
                     Details("Jailbreak detected: '%s'",
                             self.keywords[FirstKeyword(self.keywords, low)]),
                     None)
         ELSE Result("PASS", Details("No jailbreak detected.", <<>>), None) :
           low \in {Lower(text)}} : TRUE

(***************************************************************************)
(* Semantic_Threat_Detector                                                *)
(***************************************************************************)
Semantic_Threat_Detector_init(policy_config) ==
    Built([name |-> "Semantic_Threat_Detector"])

\* the first pattern of pats that matches in text: its index, 0 if none
FirstPattern(pats, text) ==
    IF \E k \in 1..Len(pats) : Search(pats[k].re, text, TRUE)
    THEN CHOOSE k \in 1..Len(pats) :
            /\ Search(pats[k].re, text, TRUE)
            /\ \A j \in 1..(k - 1) : ~Search(pats[j].re, text, TRUE)
    ELSE 0

\* a detector that tries its rewrite patterns before its block patterns
Semantic_Threat_Detector_rewrite_first(self, text) ==
    IF Search(BombWord, text, TRUE) /\ Search(CreationVerb, text, TRUE)
    THEN Result("BLOCK", Details("Dangerous bomb-making intent detected.", <<>>),
                None)
    ELSE IF FirstPattern(rewrite_patterns, text) # 0
    THEN Result("REWRITE",
                Details("Potentially unsafe -> rewritten to defensive intent.",
                        <<>>),
                rewrite_template \o text)
    ELSE IF FirstPattern(block_patterns, text) # 0
    THEN Result("BLOCK",
                Details("Semantic threat detected (pattern: '%s')",
                        <<block_patterns[FirstPattern(block_patterns,
                                                       text)].pattern>>),
                None)
    ELSE Result("PASS", Details("No semantic threat detected.", <<>>), None)

Semantic_Threat_Detector_evaluate_prompt(self, text) ==
    IF Search(BombWord, text, TRUE) /\ Search(CreationVerb, text, TRUE)
    THEN Result("BLOCK", Details("Dangerous bomb-making intent detected.", <<>>),
                None)
    ELSE LET b == FirstPattern(block_patterns, text)
         IN  IF b # 0
             THEN Result("BLOCK",
                         Details("Semantic threat detected (pattern: '%s')",
                                 <<block_patterns[b].pattern>>),
                         None)
             ELSE IF FirstPattern(rewrite_patterns, text) # 0
             THEN Result("REWRITE",
                         Details("Potentially unsafe -> rewritten to defensive intent.",
                                 <<>>),
                         rewrite_template \o text)
             ELSE Result("PASS", Details("No semantic threat detected.", <<>>),
                         None)

(***************************************************************************)
(* Output_Sanitizer                                                        *)
(***************************************************************************)
Output_Sanitizer_init(policy_config) ==
    IF policy_config.t # "dict" THEN NotBuilt("AttributeError")
    ELSE LET phone == re_compile(Get(policy_config, "phone_pattern",
                                     StrV(PhoneSource)))
             email == re_compile(Get(policy_config, "email_pattern",
                                     StrV(EmailSource)))
         IN  IF phone.raises # "" THEN NotBuilt(phone.raises)
             ELSE IF email.raises # "" THEN NotBuilt(email.raises)
             ELSE Built([name |-> "Output_Sanitizer",
                         phone_regex |-> phone.re,
                         email_regex |-> email.re,
                         mask_token |-> Get(policy_config, "mask_token",
                                            StrV(<<"[","R","E","D","A","C",
                                                "T","E","D","]">>)),
                         disallowed |-> Get(policy_config, "disallowed_domains",
                                            ListV(<<StrV(<<"p","a","s","t",
                                                "e","b","i","n",".","c","o",
                                                    "m">>),
                                                    StrV(<<"a","n","o","n",
                                                        "f","i","l","e","s",
                                                            ".","c","o",
                                                                "m">>)>>))])

\* the loop over self.disallowed from its k-th element on; re.escape raises
\* TypeError on a domain that is no string
RECURSIVE SanitizeLinks(_, _, _, _)
SanitizeLinks(doms, k, mask_token, processed) ==
    IF k > Len(doms) THEN [raises |-> "", text |-> processed]
    ELSE IF doms[k].t # "str" THEN [raises |-> "TypeError", text |-> processed]
    ELSE CHOOSE res \in
           {IF r.raises # "" THEN r
            ELSE SanitizeLinks(doms, k + 1, mask_token, r.text) :
              r \in {SubRepl(UrlPattern(doms[k].v), mask_token, processed, TRUE)}} :
           TRUE

Output_Sanitizer_evaluate_prompt(self, text) ==
    LET doms == Iterate(self.disallowed)
    IN  CHOOSE res \in
          {IF p1.raises # "" THEN Raised(p1.raises)
           ELSE CHOOSE res2 \in
             {IF p2.raises # "" THEN Raised(p2.raises)
              ELSE IF doms.raises # "" THEN Raised(doms.raises)
              ELSE CHOOSE res3 \in
                {IF p3.raises # "" THEN Raised(p3.raises)
                 ELSE IF p3.text # text
                 THEN Result("MASK",
                             Details("Output sanitized (PII or unsafe links).",
                                     <<>>),
                             p3.text)
                 ELSE Result("PASS", Details("Output clean.", <<>>), None) :
                   p3 \in {SanitizeLinks(doms.items, 1, self.mask_token,
                                         p2.text)}} : TRUE :
                p2 \in {SubRepl(self.email_regex, self.mask_token, p1.text,
                                FALSE)}} : TRUE :
             p1 \in {SubRepl(self.phone_regex, self.mask_token, text, FALSE)}} :
          TRUE

(***************************************************************************)
(* The registry                                                            *)
(***************************************************************************)
\* the keys of POLICY_MAP
POLICY_MAP ==
    {"PII_Scrubber", "Jailbreak_Detector", "Semantic_Threat_Detector",
     "Output_Sanitizer"}

\* policy_cls(policy_config) for the class POLICY_MAP gives for policy_type
Construct(policy_type, policy_config) ==
    CASE policy_type = "PII_Scrubber" -> PII_Scrubber_init(policy_config)
      [] policy_type = "Jailbreak_Detector" -> Jailbreak_Detector_init(policy_config)
      [] policy_type = "Semantic_Threat_Detector" ->
            Semantic_Threat_Detector_init(policy_config)
      [] policy_type = "Output_Sanitizer" -> Output_Sanitizer_init(policy_config)

\* policy.evaluate_prompt(text), dispatched on the policy's class
evaluate_prompt(policy, text) ==
    CASE policy.name = "PII_Scrubber" -> PII_Scrubber_evaluate_prompt(policy, text)
      [] policy.name = "Jailbreak_Detector" ->
            Jailbreak_Detector_evaluate_prompt(policy, text)
      [] policy.name = "Semantic_Threat_Detector" ->
            Semantic_Threat_Detector_evaluate_prompt(policy, text)
      [] policy.name = "Output_Sanitizer" ->
            Output_Sanitizer_evaluate_prompt(policy, text)

(***************************************************************************)
(* Keyword_Blocker, the policy of the /process_text_custom endpoint        *)
(***************************************************************************)
\* a blocker that lower-cases its keywords but drops none of them
Keyword_Blocker_init_keep_blank(keywords) ==
    [name |-> "Keyword_Blocker",
     keywords |-> [i \in 1..Len(keywords) |-> Lower(Strip(keywords[i]))]]

\* k = [x.strip().lower() for x in keywords if x.strip()]
Keyword_Blocker_init(keywords) ==
    LET NotBlank(x) == Strip(x) # <<>>
        kept == SelectSeq(keywords, NotBlank)
    IN  [name |-> "Keyword_Blocker",
         keywords |-> [i \in 1..Len(kept) |-> Lower(Strip(kept[i]))]]

Keyword_Blocker_evaluate_prompt(self, text) ==
    CHOOSE res \in
        {IF FirstKeyword(self.keywords, t) # 0
         THEN Result("BLOCK",
                     Details("Matched custom keyword: '%s'",
                             self.keywords[FirstKeyword(self.keywords, t)]),
                     None)
         ELSE Result("PASS", Details("No keyword match.", <<>>), None) :
           t \in {Lower(text)}} : TRUE

(***************************************************************************)
(* The configuration: POLICY_CONFIG_DATA, as load_policy_configs_from_file *)
(* returns it from config.yaml, which is not part of the sources. The      *)
(* table below holds a policy set for each shape of entry the loader can   *)
(* meet: known and unknown types, entries with and without a config, an    *)
(* empty list, and configurations the constructors refuse or accept.       *)
(***************************************************************************)
Item(type, config) == [type |-> type, config |-> config]

\* an entry without a "config" key
BareItem(type) == [type |-> type]

POLICY_CONFIG_DATA ==
    [ Enterprise_input |->
        << Item("PII_Scrubber", EmptyDict),
           BareItem("Jailbreak_Detector"),
           Item("Semantic_Threat_Detector", EmptyDict) >>,
      Enterprise_output |->
        << Item("Semantic_Threat_Detector", NoneV),
           Item("Output_Sanitizer", EmptyDict) >>,
      Rollout |->
        << Item("Toxicity_Filter", DictV([phone_pattern |-> StrV(<<"(">>)])),
           Item("PII_Scrubber", DictV([mask_token |-> StrV(<<>>)])),
           BareItem("Sentiment_Filter"),
           Item("Semantic_Threat_Detector", EmptyDict) >>,
      Empty |-> << >>,
      Unknown_only |->
        << Item("Toxicity_Filter", NoneV), BareItem("Sentiment_Filter") >>,
      Bad_pattern |->
        << Item("PII_Scrubber", NoneV),
           BareItem("Sentiment_Filter"),
           Item("Output_Sanitizer", DictV([phone_pattern |-> StrV(<<"(">>)])) >>,
      Null_config |->
        << Item("Jailbreak_Detector", NoneV) >>,
      Bad_mask |->
        << BareItem("Semantic_Threat_Detector"),
           Item("PII_Scrubber", DictV([mask_token |-> StrV(<<"\\",
               "1">>)])) >>,
      Bad_domains |->
        << Item("Output_Sanitizer", DictV([disallowed_domains |-> NoneV])) >>,
      Double_mask |->
        << Item("PII_Scrubber", DictV([mask_token |-> StrV(<<"X">>)])),
           Item("PII_Scrubber", DictV([mask_token |-> StrV(<<"X">>)])) >> ]

\* the policy-set names a caller asks for: those of the table and one more
PolicyNames == DOMAIN POLICY_CONFIG_DATA \cup {"Missing"}

\* the pieces the request texts are put together from
Fragments ==
    { <<"a","@","b",".","c","c">>,
      <<"m","a","k","e">>,
      <<" ","b","o","m","b">>,
      <<"h","a","c","k"," ","w","i","f","i"," ">>,
      <<"D","A","N"," ","m","o","d","e">>,
      <<"5","5","5","-","1","2","3","4">>,
      <<"i","e","d">> }

\* the keyword lists given to /process_text_custom: keywords to trim and to
\* lower-case, blank keywords, several keywords in one text, none at all
KeywordLists ==
    { << <<" ","B","o","m","b"," ">> >>,
      << <<>>, <<" "," ">>, <<"w","i","f","i">> >>,
      << <<"z","e","b","r","a">>, <<"m","o","d","e">>, <<"D","A","N">> >>,
      << <<"m","a","k","e"," ","i","t">> >>,
      << >> }

\* a request text holds at most MaxWords fragments
MaxWords == 2

RECURSIVE TextsOf(_)
TextsOf(n) ==
    IF n = 0 THEN {<<>>}
    ELSE TextsOf(n - 1) \cup {t \o f : t \in TextsOf(n - 1), f \in Fragments}

Texts == TextsOf(MaxWords)

(***************************************************************************)
(* The state: one caller at a time, either the /process_text endpoint or a *)
(* caller that builds an LLM_Safety_Gateway and calls process_prompt.      *)
(***************************************************************************)
VARIABLES
    pc,            \* "idle", "load" (in _load_policies), "built", "eval" (in
                   \* process_prompt), "returned", "failed", "custom_returned"
    caller,        \* "none", "endpoint", "direct", "custom"
    policy_name,   \* self.policy_name / request.policy_name
    text,          \* the text given to process_prompt; None before that
    next_item,     \* _load_policies: the index in config_list of the next item
    policy_chain,  \* _load_policies: policy_chain; then self.policy_chain
    current_text,  \* process_prompt: current_text
    audit_log,     \* process_prompt: audit_log
    final_status,  \* process_prompt: final_status
    next_policy,   \* process_prompt: the index in the chain of the next policy
    result,        \* what process_prompt returned
    error,         \* the exception that ended the request
    calls,         \* the evaluate_prompt calls made for this gateway, in order:
                   \* the policy's position, the text it got, what it returned
    earlier,       \* the first text this gateway was given and the result
                   \* process_prompt returned for it, once it is called again
    keywords,      \* request.keywords of /process_text_custom
    evals          \* concurrent evaluations: for each one its gateway's
                   \* policy set, its text, the locals of its process_prompt
                   \* call and what the call returned

vars == <<pc, caller, policy_name, text, next_item, policy_chain, current_text,
          audit_log, final_status, next_policy, result, error, calls,
          earlier, keywords, evals>>

\* the state of the request that is served alone
requestVars == <<pc, caller, policy_name, text, next_item, policy_chain,
                 current_text, audit_log, final_status, next_policy, result,
                 error, calls, earlier, keywords>>

loadVars == <<next_item, policy_chain>>

evalVars == <<current_text, audit_log, final_status, next_policy, calls>>

NoResult ==
    [status |-> "", original_text |-> None, processed_text |-> None,
     audit_log |-> <<>>, final_reason |-> NoDetails]

NoEarlier == [text |-> None, result |-> NoResult]

NoError == [exc |-> "", msg |-> "", http |-> 0, stage |-> ""]

\* so many evaluations run at the same time
MaxEvaluations == 2

Evaluations == 1..MaxEvaluations

\* no policy has returned anything yet
NoPolicyResult == Result("", NoDetails, None)

\* an evaluation that has not begun: no gateway, no text, no locals
NoEvaluation ==
    [at |-> "idle", policy_name |-> "", text |-> None, current_text |-> None,
     audit_log |-> <<>>, final_status |-> "", next_policy |-> 0,
     returned |-> NoPolicyResult, origin |-> <<>>, result |-> NoResult]

Init ==
    /\ pc = "idle"
    /\ caller = "none"
    /\ policy_name = ""
    /\ text = None
    /\ next_item = 0
    /\ policy_chain = <<>>
    /\ current_text = None
    /\ audit_log = <<>>
    /\ final_status = ""
    /\ next_policy = 0
    /\ result = NoResult
    /\ error = NoError
    /\ calls = <<>>
    /\ earlier = NoEarlier
    /\ keywords = <<>>
    /\ evals = [e \in Evaluations |-> NoEvaluation]

\* policy_config_data.get(self.policy_name): None for a name not in the table
config_list_of(name) ==
    IF name \in DOMAIN POLICY_CONFIG_DATA
    THEN ListV(POLICY_CONFIG_DATA[name]) ELSE NoneV

\* a test that takes only the empty list for missing
EmptyListOnly(x) == x.t = "list" /\ x.v = <<>>

\* `not x` for a list or None
Falsy(x) == x.t = "none" \/ (x.t = "list" /\ x.v = <<>>)

\* an exception leaves the call: the /process_text endpoint turns one raised
\* by the constructor into HTTP 500 "Policy initialization error", one raised
\* in process_prompt leaves the handler (HTTP 500); a direct caller gets the
\* exception itself
Fails(who, exc, msg, stage) ==
    /\ pc' = "failed"
    /\ error' = [exc |-> exc, msg |-> msg, stage |-> stage,
                 http |-> IF who = "endpoint" THEN 500 ELSE 0]

\* the first lines of _load_policies
StartLoad(who, name) ==
    /\ policy_name' = name
    /\ IF Falsy(config_list_of(name))
       THEN /\ Fails(who, "ValueError",
                     "Policy set '%s' not found in configuration.", "construction")
            /\ UNCHANGED loadVars
       ELSE /\ pc' = "load"
            /\ next_item' = 1
            /\ policy_chain' = <<>>
            /\ UNCHANGED error

\* a process_prompt whose audit log lives on the gateway and is never emptied
StartEvalKeepingLog(t) ==
    /\ pc' = "eval"
    /\ current_text' = t
    /\ audit_log' = audit_log
    /\ final_status' = "PASS"
    /\ next_policy' = 1
    /\ calls' = <<>>

\* the first lines of process_prompt
StartEval(t) ==
    /\ pc' = "eval"
    /\ current_text' = t
    /\ audit_log' = <<>>
    /\ final_status' = "PASS"
    /\ next_policy' = 1
    /\ calls' = <<>>

\* the config list of the policy set being loaded
ConfigList == config_list_of(policy_name).v

\* a loader that stops after its first item
LoadAfterFirst == next_item > 1

\* the loop of _load_policies has visited every item
LoadFinished == next_item > Len(ConfigList)

\* a loader that puts each new policy in front of the chain
PrependPolicy(chain, instance) == <<instance>> \o chain

\* policy_chain.append(instance)
AddPolicy(chain, instance) == Append(chain, instance)

\* an audit log that records only the results that are not PASS
AppendAuditNonPass(log, policy, status, details) ==
    IF status = "PASS" THEN log
    ELSE Append(log, [policy |-> policy.name, status |-> status,
                      details |-> details])

\* an audit log that puts the newest entry first
PrependAudit(log, policy, status, details) ==
    <<[policy |-> policy.name, status |-> status, details |-> details]>> \o log

\* audit_log.append({"policy": ..., "status": ..., "details": ...})
AppendAudit(log, policy, status, details) ==
    Append(log, [policy |-> policy.name, status |-> status, details |-> details])

\* a loop without the early return
NeverBlocks(status) == FALSE

\* `if status == "BLOCK"`: the result ends the run
Blocks(status) == status = "BLOCK"

\* a BLOCK result that hands the input text back
BlockedResultWithText(t, log, details) ==
    [status |-> "BLOCK", original_text |-> t, processed_text |-> t,
     audit_log |-> log, final_reason |-> details]

\* the dict process_prompt returns on a BLOCK
BlockedResult(t, log, details) ==
    [status |-> "BLOCK", original_text |-> t, processed_text |-> None,
     audit_log |-> log, final_reason |-> details]

\* a completed result whose reason repeats the last audit entry
CompletedResultLastDetails(t, cur, status, log) ==
    [status |-> status, original_text |-> t, processed_text |-> cur,
     audit_log |-> log,
     final_reason |-> IF log = <<>>
                      THEN Details("Policy chain executed successfully.", <<>>)
                      ELSE log[Len(log)].details]

\* the dict process_prompt returns after the loop
CompletedResult(t, cur, status, log) ==
    [status |-> status, original_text |-> t, processed_text |-> cur,
     audit_log |-> log,
     final_reason |-> Details("Policy chain executed successfully.", <<>>)]

\* a loop that takes processed_prompt whatever the status is
NextTextAnyStatus(cur, r) == r.processed_prompt

\* process_prompt, lines 91-94: the text the next policy gets
NextText(cur, r) ==
    IF r.status \in {"MASK", "REWRITE"}
       /\ r.processed_prompt # None /\ r.processed_prompt # <<>>
    THEN r.processed_prompt ELSE cur

\* a final status that keeps the first MASK or REWRITE
FirstStatusWins(cur, r) ==
    IF r.status \in {"MASK", "REWRITE"} /\ cur = "PASS" THEN r.status ELSE cur

\* a final status set under `if processed:`, next to current_text
StatusOnlyWithText(cur, r) ==
    IF r.status \in {"MASK", "REWRITE"}
       /\ r.processed_prompt # None /\ r.processed_prompt # <<>>
    THEN r.status ELSE cur

\* process_prompt, lines 91-95: final_status after a result that is no BLOCK
NextStatus(cur, r) ==
    IF r.status \in {"MASK", "REWRITE"} THEN r.status ELSE cur

(***************************************************************************)
(* Actions                                                                 *)
(***************************************************************************)
\* POST /process_text: an unknown name is refused with HTTP 400 before a
\* gateway is built
process_text_endpoint(name, t) ==
    /\ pc = "idle"
    /\ caller' = "endpoint"
    /\ text' = t
    /\ IF name \notin DOMAIN POLICY_CONFIG_DATA
       THEN /\ pc' = "failed"
            /\ policy_name' = name
            /\ error' = [exc |-> "HTTPException", msg |-> "Policy set '%s' not found.",
                         stage |-> "construction", http |-> 400]
            /\ UNCHANGED loadVars
       ELSE StartLoad("endpoint", name)
    /\ UNCHANGED <<evals, evalVars, result, earlier,
                   keywords>>

\* LLM_Safety_Gateway(policy_name, POLICY_CONFIG_DATA) by a direct caller
Gateway_init(name) ==
    /\ pc = "idle"
    /\ caller' = "direct"
    /\ StartLoad("direct", name)
    /\ UNCHANGED <<evals, text, evalVars, result, earlier,
                   keywords>>

\* one iteration of the loop of _load_policies
LoadPolicy ==
    /\ pc = "load"
    /\ next_item <= Len(ConfigList)
    /\ LET item == ConfigList[next_item]
           policy_type == item.type
           policy_config == IF "config" \in DOMAIN item THEN item.config
                            ELSE EmptyDict
       IN  IF policy_type \notin POLICY_MAP
           THEN /\ next_item' = next_item + 1
                /\ UNCHANGED <<pc, policy_chain, error>>
           ELSE LET built == Construct(policy_type, policy_config)
                IN  IF built.raises # ""
                    THEN /\ Fails(caller, built.raises, "", "construction")
                         /\ UNCHANGED <<next_item, policy_chain>>
                    ELSE /\ policy_chain' = AddPolicy(policy_chain, built.inst)
                         /\ next_item' = next_item + 1
                         /\ UNCHANGED <<pc, error>>
    /\ UNCHANGED <<evals, caller, policy_name, text, evalVars, result, earlier,
                   keywords>>

\* the end of _load_policies; the endpoint goes on to process_prompt
LoadDone ==
    /\ pc = "load"
    /\ LoadFinished
    /\ IF policy_chain = <<>>
       THEN /\ Fails(caller, "ValueError",
                     "No valid policies loaded for policy set '%s'.", "construction")
            /\ UNCHANGED evalVars
       ELSE IF caller = "endpoint"
       THEN StartEval(text) /\ UNCHANGED error
       ELSE pc' = "built" /\ UNCHANGED <<error, evalVars>>
    /\ UNCHANGED <<evals, caller, policy_name, text, loadVars, result, earlier,
                   keywords>>

\* the texts a caller gives a gateway that has answered text t before: the
\* same text again, or a text that is masked, or one that is blocked
RerunTexts(t) ==
    {t, <<"a","@","b",".","c","c">>, <<"D","A","N"," ","m","o","d","e">>}

\* what the gateway's first run was given and returned
FirstRun(first, t, r) == IF first = NoEarlier THEN [text |-> t, result |-> r]
                         ELSE first

\* gateway.process_prompt(t) by a direct caller, on a gateway it has built,
\* for the first time or again after an earlier call has returned
process_prompt(t) ==
    /\ caller = "direct"
    /\ \/ pc = "built" /\ earlier' = earlier
       \/ /\ pc = "returned"
          /\ t \in RerunTexts(text)
          /\ earlier' = FirstRun(earlier, text, result)
    /\ text' = t
    /\ StartEval(t)
    /\ result' = NoResult
    /\ UNCHANGED <<evals, caller, policy_name, loadVars, error, keywords>>

\* one iteration of the loop of process_prompt
EvalPolicy ==
    /\ pc = "eval"
    /\ next_policy <= Len(policy_chain)
    /\ \E r \in {evaluate_prompt(policy_chain[next_policy], current_text)} :
         LET policy == policy_chain[next_policy]
             status == r.status
             details == r.details
         IN  /\ calls' = Append(calls, [pos |-> next_policy, text |-> current_text,
                                        raises |-> r.raises, status |-> status,
                                        details |-> details,
                                        processed_prompt |-> r.processed_prompt])
             /\ IF r.raises # ""
                THEN /\ Fails(caller, r.raises, "", "evaluation")
                     /\ UNCHANGED <<current_text, audit_log, final_status,
                                    next_policy, result>>
                ELSE /\ audit_log' = AppendAudit(audit_log, policy, status, details)
                     /\ IF Blocks(status)
                        THEN /\ pc' = "returned"
                             /\ result' = BlockedResult(text, audit_log', details)
                             /\ UNCHANGED <<current_text, final_status,
                                            next_policy>>
                        ELSE /\ current_text' = NextText(current_text, r)
                             /\ final_status' = NextStatus(final_status, r)
                             /\ next_policy' = next_policy + 1
                             /\ UNCHANGED <<pc, result>>
                     /\ UNCHANGED error
    /\ UNCHANGED <<evals, caller, policy_name, text, loadVars, earlier,
                   keywords>>

\* the return after the loop of process_prompt
Return ==
    /\ pc = "eval"
    /\ next_policy > Len(policy_chain)
    /\ pc' = "returned"
    /\ result' = CompletedResult(text, current_text, final_status, audit_log)
    /\ UNCHANGED <<evals, caller, policy_name, text, loadVars, evalVars, error,
                   earlier, keywords>>

\* the audit entry process_text_custom builds from the blocker's result
CustomAudit(r) ==
    <<[policy |-> "Keyword_Blocker", status |-> r.status, details |-> r.details]>>

\* POST /process_text_custom: one Keyword_Blocker built from the request's
\* keywords, evaluated once on the request's text
process_text_custom(t, kws) ==
    /\ pc = "idle"
    /\ pc' = "custom_returned"
    /\ caller' = "custom"
    /\ text' = t
    /\ keywords' = kws
    /\ \E r \in {Keyword_Blocker_evaluate_prompt(Keyword_Blocker_init(kws), t)} :
         LET blocked == r.status = "BLOCK"
             processed == IF blocked THEN None ELSE t
         IN  result' = [status |-> r.status, original_text |-> t,
                        processed_text |-> processed,
                        audit_log |-> CustomAudit(r),
                        final_reason |-> r.details]
    /\ UNCHANGED <<evals, policy_name, loadVars, evalVars, error, earlier>>

\* the request is over; the next one starts from nothing
Finish ==
    /\ pc \in {"returned", "failed", "built", "custom_returned"}
    /\ pc' = "idle"
    /\ caller' = "none"
    /\ policy_name' = ""
    /\ text' = None
    /\ next_item' = 0
    /\ policy_chain' = <<>>
    /\ current_text' = None
    /\ audit_log' = <<>>
    /\ final_status' = ""
    /\ next_policy' = 0
    /\ result' = NoResult
    /\ error' = NoError
    /\ calls' = <<>>
    /\ earlier' = NoEarlier
    /\ keywords' = <<>>
    /\ UNCHANGED evals

Next ==
    \/ \E name \in PolicyNames, t \in Texts : process_text_endpoint(name, t)
    \/ \E name \in PolicyNames : Gateway_init(name)
    \/ LoadPolicy
    \/ LoadDone
    \/ \E t \in Texts : process_prompt(t)
    \/ EvalPolicy
    \/ Return
    \/ \E t \in Texts, kws \in KeywordLists : process_text_custom(t, kws)
    \/ Finish

Spec == Init /\ [][Next]_vars

(***************************************************************************)
(* Properties of process_prompt                                            *)
(***************************************************************************)
\* process_prompt has returned a result to its caller
Returned == pc = "returned"

\* the calls of this run that returned a result
Answered == {i \in 1..Len(calls) : calls[i].raises = ""}

\* the calls of this run whose result was BLOCK
BlockCalls == {i \in Answered : calls[i].status = "BLOCK"}

\* the positions in log of the entries with status MASK or REWRITE
Transforms(log) == {i \in 1..Len(log) : log[i].status \in {"MASK", "REWRITE"}}

\* the status of the last MASK or REWRITE entry of log, PASS without one
LastTransform(log) ==
    IF Transforms(log) = {} THEN "PASS"
    ELSE log[CHOOSE i \in Transforms(log) : \A j \in Transforms(log) : j <= i].status

\* C1: for every built chain and every text, the result of process_prompt
\* has status BLOCK if and only if its processed_text is None.
C1_BlockIffNoProcessedText ==
    Returned => (result.status = "BLOCK" <=> result.processed_text = None)

\* a chain whose first policy blocks has returned BLOCK without a text
C1_Witness ==
    /\ Returned
    /\ result.status = "BLOCK"
    /\ result.processed_text = None
    /\ Len(result.audit_log) = 1
    /\ Len(policy_chain) = 2

\* C2: when the first policy to return BLOCK is at position k of the chain,
\* process_prompt has returned with an audit_log of exactly k entries and
\* no policy at a position after k had evaluate_prompt called in the run.
C2_BlockStopsChain ==
    \A i \in BlockCalls :
        (\A j \in BlockCalls : i <= j) =>
            /\ Returned
            /\ result.status = "BLOCK"
            /\ Len(result.audit_log) = calls[i].pos
            /\ \A c \in 1..Len(calls) : calls[c].pos <= calls[i].pos
            /\ Len(calls) = calls[i].pos

\* the second of three policies blocked, and the third was never called
C2_Witness ==
    /\ Returned
    /\ BlockCalls = {2}
    /\ Len(policy_chain) = 3
    /\ Len(result.audit_log) = 2

\* C3: when no policy of the chain returns BLOCK, the audit_log process_prompt
\* returns has exactly as many entries as the chain has policies.
C3_FullAuditWithoutBlock ==
    (Returned /\ BlockCalls = {}) =>
        Len(result.audit_log) = Len(policy_chain)

\* a chain of three policies ran to its end, some of them answering PASS
C3_Witness ==
    /\ Returned
    /\ BlockCalls = {}
    /\ Len(policy_chain) = 3
    /\ \E i \in 1..3 : calls[i].status = "PASS"
    /\ \E i \in 1..3 : calls[i].status # "PASS"

\* C4: the final status of a run without BLOCK is the status of the last
\* audit entry whose status is MASK or REWRITE, and PASS when there is none.
C4_LastTransformWins ==
    (Returned /\ result.status # "BLOCK") =>
        result.status = LastTransform(result.audit_log)

\* a MASK entry is followed by a REWRITE entry, and the run reports REWRITE
C4_Witness ==
    /\ Returned
    /\ result.status = "REWRITE"
    /\ \E i, j \in 1..Len(result.audit_log) :
          /\ i < j
          /\ result.audit_log[i].status = "MASK"
          /\ result.audit_log[j].status = "REWRITE"

\* the step is one call of evaluate_prompt that returned a result
EvalStep ==
    /\ Len(calls') = Len(calls) + 1
    /\ calls'[Len(calls')].raises = ""

\* the result of the call the step made
StepStatus == calls'[Len(calls')].status

StepProcessed == calls'[Len(calls')].processed_prompt

\* `not processed`: the key is missing or the text is empty
NoProcessedText(processed) == processed = None \/ processed = <<>>

\* C5, as amended: during process_prompt, final_status is overwritten by
\* every result whose status is MASK or REWRITE, whatever its processed text,
\* and by no other result; current_text is replaced only by the non-empty
\* processed text of a MASK or REWRITE result, so a MASK or REWRITE result
\* with empty or missing processed text leaves current_text unchanged.
C5_StatusFollowsEveryTransform ==
    [][ (EvalStep /\ StepStatus # "BLOCK") =>
          /\ final_status' = IF StepStatus \in {"MASK", "REWRITE"}
                              THEN StepStatus ELSE final_status
          /\ current_text' = IF StepStatus \in {"MASK", "REWRITE"}
                                 /\ ~NoProcessedText(StepProcessed)
                              THEN StepProcessed ELSE current_text ]_vars

\* C5, as stated: final_status is overwritten by a result only when its
\* status is MASK or REWRITE and its processed text is non-empty; a MASK or
\* REWRITE result with empty or missing processed text leaves final_status
\* and current_text unchanged.
C5_StatusOnlyWithProcessedText ==
    [][ (EvalStep /\ StepStatus # "BLOCK") =>
          /\ final_status' # final_status =>
                /\ StepStatus \in {"MASK", "REWRITE"}
                /\ ~NoProcessedText(StepProcessed)
          /\ (StepStatus \in {"MASK", "REWRITE"} /\ NoProcessedText(StepProcessed))
                => /\ final_status' = final_status
                   /\ current_text' = current_text ]_vars

\* a MASK result with an empty processed text has set final_status to MASK
\* and left current_text as the policy was given it
C5_Witness ==
    /\ pc = "eval"
    /\ calls # <<>>
    /\ calls[Len(calls)].status = "MASK"
    /\ calls[Len(calls)].processed_prompt = <<>>
    /\ final_status = "MASK"
    /\ current_text = calls[Len(calls)].text
    /\ Len(calls) = 1

\* C6: on a successfully constructed chain process_prompt returns a result
\* for every text and never raises: no state is reached in which a policy's
\* evaluate_prompt has failed during evaluation.
C6_EvaluationNeverRaises ==
    /\ ~(pc = "failed" /\ error.stage = "evaluation")
    /\ \A i \in 1..Len(calls) : calls[i].raises = ""

\* the name asked for is not in the table of policy sets
AbsentName ==
    caller \in {"endpoint", "direct"} /\ policy_name \notin DOMAIN POLICY_CONFIG_DATA

NotFoundMessages ==
    {"Policy set '%s' not found in configuration.", "Policy set '%s' not found."}

\* C7: building a gateway for a policy-set name that is absent from the
\* table fails with the not-found configuration error, and no policy
\* evaluates any text for that request.
C7_AbsentNameNotFound ==
    AbsentName =>
        /\ pc = "failed"
        /\ error.stage = "construction"
        /\ error.msg \in NotFoundMessages
        /\ policy_chain = <<>>
        /\ calls = <<>>

\* a direct caller asked for an absent name and got the ValueError
C7_Witness ==
    /\ AbsentName
    /\ caller = "direct"
    /\ pc = "failed"
    /\ error.exc = "ValueError"
    /\ error.msg = "Policy set '%s' not found in configuration."

(***************************************************************************)
(* Properties of _load_policies                                            *)
(***************************************************************************)
\* the name asked for is in the table of policy sets
PresentName ==
    caller \in {"endpoint", "direct"} /\ policy_name \in DOMAIN POLICY_CONFIG_DATA

KnownType(item) == item.type \in POLICY_MAP

\* the entries of cfg whose type tag the registry knows, in the order of cfg
KnownEntries(cfg) == SelectSeq(cfg, KnownType)

ConfigOf(item) == IF "config" \in DOMAIN item THEN item.config ELSE EmptyDict

\* the constructor takes the entry's configuration
Accepted(item) == Construct(item.type, ConfigOf(item)).raises = ""

AllAccepted(cfg) ==
    \A i \in 1..Len(KnownEntries(cfg)) : Accepted(KnownEntries(cfg)[i])

\* one policy per known entry of cfg, in the order of cfg
ExpectedChain(cfg) ==
    [k \in 1..Len(KnownEntries(cfg)) |->
        Construct(KnownEntries(cfg)[k].type, ConfigOf(KnownEntries(cfg)[k])).inst]

\* cfg holds entries with unknown type tags and at least one known one
MixedList(cfg) == KnownEntries(cfg) # <<>> /\ Len(KnownEntries(cfg)) < Len(cfg)

ConstructionFailed == pc = "failed" /\ error.stage = "construction"

\* C8: building a gateway for a name that is in the table, but whose entry
\* list is empty or holds only unknown type tags, fails with the "no valid
\* policies" error, which the not-found error of an absent name is not.
C8_EmptyChainError ==
    (PresentName /\ KnownEntries(ConfigList) = <<>> /\ pc # "load") =>
        /\ ConstructionFailed
        /\ error.msg = "No valid policies loaded for policy set '%s'."
        /\ error.msg \notin NotFoundMessages

\* C9, as amended: when a policy set holds entries with unknown type tags
\* and at least one entry with a known tag, and the constructor of every
\* known-tag entry accepts that entry's configuration, construction succeeds
\* and the built chain is exactly the policies of the known-tag entries, one
\* per entry, in the order of the configuration list.
C9_KnownEntriesInOrder ==
    (PresentName /\ MixedList(ConfigList) /\ AllAccepted(ConfigList)) =>
        /\ ~ConstructionFailed
        /\ pc = "load" =>
              policy_chain = ExpectedChain(SubSeq(ConfigList, 1, next_item - 1))
        /\ pc # "load" => policy_chain = ExpectedChain(ConfigList)

\* C9, as stated: whenever a policy set holds entries with unknown type tags
\* and at least one entry with a known tag, construction succeeds and the
\* built chain is the policies of the known-tag entries in order.
C9_MixedListAlwaysBuilds ==
    (PresentName /\ MixedList(ConfigList)) =>
        /\ ~ConstructionFailed
        /\ pc # "load" => policy_chain = ExpectedChain(ConfigList)

\* a list with two unknown and two known entries was built and is in use
C9_Witness ==
    /\ PresentName
    /\ MixedList(ConfigList)
    /\ AllAccepted(ConfigList)
    /\ Len(ConfigList) = 4
    /\ Len(policy_chain) = 2
    /\ policy_chain[1].name = "PII_Scrubber"
    /\ policy_chain[2].name = "Semantic_Threat_Detector"
    /\ calls # <<>>

\* C10: within one request every construction failure (unknown set name,
\* empty chain, a configuration a constructor refuses) is raised before the
\* first evaluate_prompt call; once a policy has been called, every entry of
\* the list has been visited and no construction error occurs.
C10_ConstructionBeforeEvaluation ==
    /\ ConstructionFailed => calls = <<>> /\ result = NoResult
    /\ calls # <<>> =>
          /\ next_item > Len(ConfigList)
          /\ error.stage # "construction"

\* the endpoint's request failed on the third entry of its list, whose
\* configuration the constructor refused, with no policy called on the text
C10_Witness ==
    /\ ConstructionFailed
    /\ caller = "endpoint"
    /\ error.exc = "error"
    /\ next_item = 3
    /\ Len(policy_chain) = 1
    /\ text # <<>>
    /\ calls = <<>>

(***************************************************************************)
(* Properties of repeated and chained evaluation                           *)
(***************************************************************************)
\* the gateway has answered before, and the run that has now returned was
\* given the text of its first run
SameTextAgain == Returned /\ earlier # NoEarlier /\ earlier.text = text

\* C11: process_prompt called twice on the same chain with the same text
\* returns the same status, original_text, processed_text, audit_log and
\* final_reason, whatever the gateway evaluated in between.
C11_SameTextSameResult ==
    SameTextAgain =>
        /\ result.status = earlier.result.status
        /\ result.original_text = earlier.result.original_text
        /\ result.processed_text = earlier.result.processed_text
        /\ result.audit_log = earlier.result.audit_log
        /\ result.final_reason = earlier.result.final_reason

\* a chain of three policies answered the same text a second time, with a
\* MASK and a REWRITE entry in its audit log
C11_Witness ==
    /\ SameTextAgain
    /\ Len(result.audit_log) = 3
    /\ result.audit_log[1].status = "MASK"
    /\ result.status = "REWRITE"

\* entry i of log names policy i of the chain and carries what call i returned
EntryMatchesCall(log, i) ==
    /\ i <= Len(policy_chain)
    /\ i \in Answered
    /\ calls[i].pos = i
    /\ log[i].policy = policy_chain[i].name
    /\ log[i].status = calls[i].status
    /\ log[i].details = calls[i].details

\* C12: for every i up to the length of the audit_log, the i-th audit entry
\* names the i-th policy of the chain and carries the status and details
\* that policy returned: the log is a prefix of the chain in chain order,
\* without reordering, duplication or gaps.
C12_AuditLogFollowsChain ==
    /\ \A i \in 1..Len(audit_log) : EntryMatchesCall(audit_log, i)
    /\ Len(audit_log) = Cardinality(Answered)
    /\ Returned =>
          /\ result.audit_log = audit_log
          /\ Len(result.audit_log) >= 1

\* a returned audit log of three entries, not all with the same status
C12_Witness ==
    /\ Returned
    /\ Len(result.audit_log) = 3
    /\ result.audit_log[1].policy = "PII_Scrubber"
    /\ result.audit_log[2].policy = "Jailbreak_Detector"
    /\ result.audit_log[3].policy = "Semantic_Threat_Detector"
    /\ result.audit_log[1].status = "MASK"
    /\ result.audit_log[2].status = "PASS"

(***************************************************************************)
(* Properties of the custom keyword endpoint                               *)
(***************************************************************************)
\* /process_text_custom has answered
CustomReturned == pc = "custom_returned"

\* keyword x is neither empty nor only whitespace
Retainable(x) == \E k \in 1..Len(x) : x[k] \notin Whitespace

\* the caller's keywords, trimmed and lower-cased, without the blank ones
Retained(kws) ==
    LET kept == SelectSeq(kws, Retainable)
    IN  [i \in 1..Len(kept) |-> Lower(Strip(kept[i]))]

\* the positions of the retained keywords that occur in the lower-cased text
Hits(kws, t) ==
    {i \in 1..Len(Retained(kws)) : Contains(Lower(t), Retained(kws)[i])}

\* C13: the keyword blocker built from the caller's list (keywords trimmed
\* and lower-cased, blank ones dropped) returns BLOCK naming the first
\* keyword in list order that is a substring of the lower-cased text, and
\* PASS when no retained keyword is one; the custom endpoint's result has
\* exactly one audit entry, and processed_text is None iff status is BLOCK.
C13_FirstKeywordBlocks ==
    CustomReturned =>
        /\ Hits(keywords, text) = {} =>
              /\ result.status = "PASS"
              /\ result.audit_log[1].details = Details("No keyword match.", <<>>)
        /\ Hits(keywords, text) # {} =>
              /\ result.status = "BLOCK"
              /\ \E i \in Hits(keywords, text) :
                    /\ \A j \in Hits(keywords, text) : i <= j
                    /\ result.audit_log[1].details =
                          Details("Matched custom keyword: '%s'",
                                  Retained(keywords)[i])
        /\ Len(result.audit_log) = 1
        /\ result.audit_log[1].status = result.status
        /\ result.processed_text = None <=> result.status = "BLOCK"

\* a text holding the second and the third keyword of the list, the third
\* before the second, was blocked
C13_Witness ==
    /\ CustomReturned
    /\ Cardinality(Hits(keywords, text)) = 2
    /\ 1 \notin Hits(keywords, text)
    /\ result.status = "BLOCK"
    /\ result.processed_text = None

(***************************************************************************)
(* Properties of the policies                                              *)
(***************************************************************************)
\* call i + 1 of the run applied the PII_Scrubber of call i, with the same
\* mask token, to the text call i produced
RedactedAgain(i) ==
    /\ i \in Answered /\ i + 1 \in Answered
    /\ policy_chain[i].name = "PII_Scrubber"
    /\ policy_chain[i + 1] = policy_chain[i]
    /\ calls[i].status = "MASK"
    /\ calls[i + 1].text = calls[i].processed_prompt

\* C14: the PII redactor is idempotent for every text and every configured
\* mask token: applied to the text it produced it returns PASS and changes
\* nothing.
C14_RedactIsIdempotent ==
    \A i \in 1..Len(calls) :
        RedactedAgain(i) =>
            /\ calls[i + 1].status = "PASS"
            /\ calls[i + 1].processed_prompt = None

\* the redactor was applied to its own output and found nothing more to mask
C14_Witness ==
    \E i \in 1..Len(calls) :
        /\ RedactedAgain(i)
        /\ calls[i + 1].status = "PASS"

\* call i returned MASK or REWRITE
Transformed(i) == i \in Answered /\ calls[i].status \in {"MASK", "REWRITE"}

\* C15: each policy evaluates the current text as left by the policies
\* before it: whenever a policy returns MASK or REWRITE, the next policy
\* receives that policy's processed text, and when no later policy
\* transforms or blocks, the result's processed_text is that processed text.
C15_NextGetsProcessedText ==
    \A i \in 1..Len(calls) :
        Transformed(i) =>
            /\ i < Len(calls) => calls[i + 1].text = calls[i].processed_prompt
            /\ ( /\ Returned /\ result.status # "BLOCK"
                 /\ \A j \in (i + 1)..Len(calls) : ~Transformed(j) )
                 => result.processed_text = calls[i].processed_prompt

\* the second policy was given the text the first one rewrote, and the
\* result carries the text the second one masked
C15_Witness ==
    /\ Returned
    /\ Len(calls) = 2
    /\ calls[1].status = "REWRITE"
    /\ calls[2].text = calls[1].processed_prompt
    /\ calls[2].status = "MASK"
    /\ result.processed_text = calls[2].processed_prompt

\* a run of process_prompt has called a policy and is no longer in its loop
RunOver == calls # <<>> /\ pc # "eval"

\* C16: every run of process_prompt over a finite chain ends in exactly one
\* of two outcomes: BLOCKED, if and only if some evaluated policy returned
\* BLOCK, or COMPLETED, only after every policy of the chain was evaluated;
\* at most len(chain) evaluations happen, and none after the outcome.
C16_EndsBlockedOrCompleted ==
    /\ Len(calls) <= Len(policy_chain)
    /\ pc = "eval" => ENABLED (EvalPolicy \/ Return)
    /\ RunOver => Returned
    /\ Returned =>
          /\ result.status = "BLOCK" <=> BlockCalls # {}
          /\ result.status = "BLOCK" => BlockCalls = {Len(calls)}
          /\ result.status # "BLOCK" => Len(calls) = Len(policy_chain)

\* a run over three policies ended COMPLETED after three evaluations
C16_Witness ==
    /\ RunOver
    /\ Returned
    /\ result.status \in {"PASS", "MASK", "REWRITE"}
    /\ Len(calls) = 3
    /\ Len(policy_chain) = 3

\* call i was answered by a Semantic_Threat_Detector
SemanticCall(i) ==
    i \in Answered /\ policy_chain[calls[i].pos].name = "Semantic_Threat_Detector"

\* the compound rule: the word bomb, and a verb of making anywhere in t
CompoundBomb(t) == Search(BombWord, t, TRUE) /\ Search(CreationVerb, t, TRUE)

\* the positions in pats of the patterns found in t
Matching(pats, t) == {k \in 1..Len(pats) : Search(pats[k].re, t, TRUE)}

\* what the rules, taken in strict precedence, give for t
ByPrecedence(t) ==
    IF CompoundBomb(t)
    THEN [status |-> "BLOCK",
          details |-> Details("Dangerous bomb-making intent detected.", <<>>),
          processed_prompt |-> None]
    ELSE IF \E k \in 1..Len(block_patterns) : Search(block_patterns[k].re, t, TRUE)
    THEN [status |-> "BLOCK",
          details |->
            Details("Semantic threat detected (pattern: '%s')",
                    <<block_patterns[
                        CHOOSE k \in 1..Len(block_patterns) :
                          /\ Search(block_patterns[k].re, t, TRUE)
                          /\ \A j \in 1..(k - 1) :
                                ~Search(block_patterns[j].re, t, TRUE)].pattern>>),
          processed_prompt |-> None]
    ELSE IF Matching(rewrite_patterns, t) # {}
    THEN [status |-> "REWRITE",
          details |->
            Details("Potentially unsafe -> rewritten to defensive intent.", <<>>),
          processed_prompt |-> rewrite_template \o t]
    ELSE [status |-> "PASS",
          details |-> Details("No semantic threat detected.", <<>>),
          processed_prompt |-> None]

\* C17: the semantic-threat detector applies its rules in strict precedence:
\* the compound bomb rule gives BLOCK with the fixed bomb-making reason even
\* when block or rewrite patterns match too; otherwise a matching block
\* pattern gives BLOCK naming the first matching pattern in list order even
\* when a rewrite pattern matches too; otherwise a matching rewrite pattern
\* gives REWRITE with the template wrapping the text; otherwise PASS.
C17_RulePrecedence ==
    \A i \in 1..Len(calls) :
        SemanticCall(i) =>
            \E due \in {ByPrecedence(calls[i].text)} :
                /\ calls[i].status = due.status
                /\ calls[i].details = due.details
                /\ calls[i].processed_prompt = due.processed_prompt

\* a text matching a block pattern and a rewrite pattern, but not the
\* compound rule, was blocked
C17_Witness ==
    \E i \in 1..Len(calls) :
        /\ SemanticCall(i)
        /\ ~CompoundBomb(calls[i].text)
        /\ Matching(block_patterns, calls[i].text) # {}
        /\ Matching(rewrite_patterns, calls[i].text) # {}
        /\ calls[i].status = "BLOCK"

\* the fixed reason of a run that went through its whole chain
ChainExecuted == Details("Policy chain executed successfully.", <<>>)

\* C18: the final_reason of a BLOCK result is the details of the blocking
\* policy, which are the details of the last audit entry; the final_reason
\* of every other result is the fixed text "Policy chain executed
\* successfully."; original_text is the input text in both cases.
C18_FinalReason ==
    Returned =>
        /\ result.original_text = text
        /\ result.status = "BLOCK" =>
              /\ result.audit_log # <<>>
              /\ result.final_reason =
                    result.audit_log[Len(result.audit_log)].details
              /\ calls[Len(calls)].status = "BLOCK"
              /\ result.final_reason = calls[Len(calls)].details
        /\ result.status # "BLOCK" => result.final_reason = ChainExecuted

\* a run in which a MASK and a REWRITE policy fired returned the fixed reason,
\* which is not the details of its last audit entry
C18_Witness ==
    /\ Returned
    /\ result.status # "BLOCK"
    /\ \E i, j \in Answered : calls[i].status = "MASK" /\ calls[j].status = "REWRITE"
    /\ result.audit_log[Len(result.audit_log)].details # result.final_reason
    /\ result.final_reason = ChainExecuted

\* what the loop of process_prompt returns for the chain <<blocker>> and text t
OnePolicyChain(blocker, t) ==
    CHOOSE res \in
        {IF Blocks(r.status)
         THEN BlockedResult(t, AppendAudit(<<>>, blocker, r.status, r.details),
                            r.details)
         ELSE CompletedResult(t, NextText(t, r), NextStatus("PASS", r),
                              AppendAudit(<<>>, blocker, r.status, r.details)) :
           r \in {Keyword_Blocker_evaluate_prompt(blocker, t)}} : TRUE

\* the fields of the two results that differ
Differing(a, b) ==
    {f \in {"status", "original_text", "processed_text", "audit_log",
            "final_reason"} : a[f] # b[f]}

\* C19: for every text and keyword list the result of process_text_custom
\* equals, on status, original_text, processed_text, audit_log and
\* final_reason, the result of the gateway's evaluation of the one-policy
\* chain made of that Keyword_Blocker.
C19_CustomEqualsOnePolicyChain ==
    CustomReturned =>
        Differing(result, OnePolicyChain(Keyword_Blocker_init(keywords), text)) = {}

\* no keyword matched: the custom result carries the blocker's details as its
\* final_reason where the chain reports the fixed reason, and nothing else
\* differs
C19_Witness ==
    /\ CustomReturned
    /\ result.status = "PASS"
    /\ Retained(keywords) # <<>>
    /\ text # <<>>
    /\ result.final_reason = Details("No keyword match.", <<>>)
    /\ Differing(result, OnePolicyChain(Keyword_Blocker_init(keywords), text))
          = {"final_reason"}

(***************************************************************************)
(* Concurrent evaluations. Every request builds a gateway and calls its    *)
(* process_prompt; a direct caller may call process_prompt of one gateway  *)
(* from several threads. current_text, audit_log and final_status are      *)
(* locals of the call; self.policy_chain and the policies are only read.   *)
(* Each evaluation advances by one evaluate_prompt call or by the          *)
(* bookkeeping that follows it, in any order with the others.              *)
(***************************************************************************)
\* the policy sets of the concurrent evaluations: two chains that transform
\* and block, and one whose policy raises
ConcurrentSets == {"Enterprise_input", "Double_mask", "Bad_domains"}

ConcurrentTexts ==
    { <<"a","@","b",".","c","c">>, <<"D","A","N"," ","m","o","d","e">> }

\* self.policy_chain of a gateway built for the policy set name
ChainOf(name) == ExpectedChain(POLICY_CONFIG_DATA[name])

\* a working state that every evaluation takes from the first one
SharedLocals(ev, e) ==
    [ev[e] EXCEPT !.audit_log = ev[1].audit_log, !.origin = ev[1].origin]

\* the locals of evaluation e: those of its own process_prompt call
Locals(ev, e) == ev[e]

\* process_prompt(text) is called on a gateway of the policy set name
StartEvaluation(e, name, t) ==
    /\ evals[e].at = "idle"
    /\ evals' = [evals EXCEPT ![e] =
                    [NoEvaluation EXCEPT !.at = "call", !.policy_name = name,
                                         !.text = t, !.current_text = t,
                                         !.final_status = "PASS",
                                         !.next_policy = 1]]
    /\ UNCHANGED requestVars

\* result = policy.evaluate_prompt(current_text)
CallPolicy(e) ==
    /\ evals[e].at = "call"
    /\ evals[e].next_policy <= Len(ChainOf(evals[e].policy_name))
    /\ \E mine \in {Locals(evals, e)} :
       \E r \in {evaluate_prompt(ChainOf(mine.policy_name)[mine.next_policy],
                                 mine.current_text)} :
         evals' = [evals EXCEPT ![e] =
                     [mine EXCEPT !.at = IF r.raises # "" THEN "raised"
                                         ELSE "record",
                                  !.returned = r]]
    /\ UNCHANGED requestVars

\* the lines of the loop after the call: the audit entry, the early return on
\* BLOCK, the new current_text and final_status
RecordResult(e) ==
    /\ evals[e].at = "record"
    /\ \E mine \in {Locals(evals, e)} :
         LET policy == ChainOf(mine.policy_name)[mine.next_policy]
             r == mine.returned
             log == AppendAudit(mine.audit_log, policy, r.status, r.details)
             from == Append(mine.origin, [by |-> e, text |-> mine.current_text])
         IN  evals' = [evals EXCEPT ![e] =
                 IF Blocks(r.status)
                 THEN [mine EXCEPT !.at = "returned", !.audit_log = log,
                                   !.origin = from,
                                   !.result = BlockedResult(mine.text, log,
                                                            r.details)]
                 ELSE [mine EXCEPT !.at = "call", !.audit_log = log,
                                   !.origin = from,
                                   !.current_text = NextText(mine.current_text, r),
                                   !.final_status = NextStatus(mine.final_status, r),
                                   !.next_policy = mine.next_policy + 1]]
    /\ UNCHANGED requestVars

\* the return after the loop
ReturnResult(e) ==
    /\ evals[e].at = "call"
    /\ evals[e].next_policy > Len(ChainOf(evals[e].policy_name))
    /\ \E mine \in {Locals(evals, e)} :
         evals' = [evals EXCEPT ![e] =
                     [mine EXCEPT !.at = "returned",
                                  !.result = CompletedResult(mine.text,
                                                 mine.current_text,
                                                 mine.final_status,
                                                 mine.audit_log)]]
    /\ UNCHANGED requestVars

\* the caller has its result or its exception; the next request may come
EndEvaluation(e) ==
    /\ evals[e].at \in {"returned", "raised"}
    /\ evals' = [evals EXCEPT ![e] = NoEvaluation]
    /\ UNCHANGED requestVars

NextConcurrent ==
    \/ \E e \in Evaluations, name \in ConcurrentSets, t \in ConcurrentTexts :
         StartEvaluation(e, name, t)
    \/ \E e \in Evaluations : CallPolicy(e)
    \/ \E e \in Evaluations : RecordResult(e)
    \/ \E e \in Evaluations : ReturnResult(e)
    \/ \E e \in Evaluations : EndEvaluation(e)

SpecConcurrent == Init /\ [][NextConcurrent]_vars

\* process_prompt(t) run alone from policy k of chain on, with the locals
\* cur, status and log
RECURSIVE RunAlone(_, _, _, _, _, _)
RunAlone(chain, k, t, cur, status, log) ==
    IF k > Len(chain) THEN CompletedResult(t, cur, status, log)
    ELSE LET r == evaluate_prompt(chain[k], cur)
             entry == [policy |-> chain[k].name, status |-> r.status,
                       details |-> r.details]
         IN  IF r.raises # "" THEN NoResult
             ELSE IF r.status = "BLOCK"
             THEN BlockedResult(t, Append(log, entry), r.details)
             ELSE RunAlone(chain, k + 1, t, NextText(cur, r),
                           NextStatus(status, r), Append(log, entry))

Alone(name, t) == RunAlone(ChainOf(name), 1, t, t, "PASS", <<>>)

ReturnedEvaluations == {e \in Evaluations : evals[e].at = "returned"}

\* evaluation e is in the middle of its chain
Midway(e) ==
    /\ evals[e].at \in {"call", "record"}
    /\ evals[e].audit_log # <<>>

\* C20: concurrent evaluations, on the same or on different policy sets,
\* share no mutable state: in every interleaving of their steps each
\* evaluation returns the result (status, processed_text, audit_log,
\* final_reason) it returns when run alone, and its audit_log holds no entry
\* made for another evaluation's text.
C20_ConcurrentAsAlone ==
    \A e \in ReturnedEvaluations :
        /\ evals[e].result = Alone(evals[e].policy_name, evals[e].text)
        /\ Len(evals[e].origin) = Len(evals[e].result.audit_log)
        /\ \A i \in 1..Len(evals[e].origin) : evals[e].origin[i].by = e
        /\ evals[e].origin # <<>> => evals[e].origin[1].text = evals[e].text

\* an evaluation has returned a result with several audit entries while
\* another one, on another text of the same policy set, was midway
C20_Witness ==
    \E e \in ReturnedEvaluations :
        /\ Len(evals[e].result.audit_log) > 1
        /\ \E a \in Evaluations \ {e} :
             /\ Midway(a)
             /\ evals[a].policy_name = evals[e].policy_name
             /\ evals[a].text # evals[e].text

(***************************************************************************)
(* A chain that lets the text through                                      *)
(***************************************************************************)
\* process_prompt has returned and every policy of the chain was called and
\* returned PASS
AllPassed ==
    /\ Returned
    /\ Len(calls) = Len(policy_chain)
    /\ \A i \in 1..Len(calls) :
          /\ calls[i].pos = i
          /\ calls[i].raises = ""
          /\ calls[i].status = "PASS"

\* C21: if every policy of the chain returns PASS for the input text, the
\* result has status PASS, its audit_log has one PASS entry per policy of the
\* chain, and its processed_text equals its original_text; each policy was
\* given the input text itself.
C21_AllPassLeavesText ==
    AllPassed =>
        /\ \A i \in 1..Len(calls) : calls[i].text = text
        /\ result.status = "PASS"
        /\ Len(result.audit_log) = Len(policy_chain)
        /\ \A k \in 1..Len(policy_chain) :
              /\ result.audit_log[k].policy = policy_chain[k].name
              /\ result.audit_log[k].status = "PASS"
        /\ result.processed_text = result.original_text
        /\ result.original_text = text

\* a chain of three policies has passed a text that is not empty
C21_Witness ==
    /\ AllPassed
    /\ Len(policy_chain) = 3
    /\ text # <<>>
    /\ result.processed_text = text

====
